---------------------------- MODULE Spec2Model ----------------------------
(***************************************************************************)
(* RunnersService of go-gitlab (runners.go): nine endpoint functions that  *)
(* normalise their identifiers, build a relative path, ask the shared      *)
(* client for a request (NewRequest) and execute it (Do).                  *)
(*                                                                         *)
(* Go strings that take part in path construction are sequences of         *)
(* one-character strings, so that fmt.Sprintf and url.QueryEscape are      *)
(* computed character by character.  Every nullable Go value is a record   *)
(* with a "kind" field; nil is NilV.                                       *)
(***************************************************************************)
EXTENDS Integers, Sequences, FiniteSets, TLC

\* ------------------------------------------------------------------ bounds

\* Longest string identifier a caller passes.
MaxIdLen == 2

\* Longest JSON array a list response carries.
MaxList == 2

\* ------------------------------------------------------------ Go values

NilV == [kind |-> "nil"]

StrV(s) == [kind |-> "str", s |-> s]

BoolV(b) == [kind |-> "bool", b |-> b]

IntV(n) == [kind |-> "int", n |-> n]

StrsV(items) == [kind |-> "strs", items |-> items]

PtrV(v) == [kind |-> "ptr", to |-> v]

\* ------------------------------------------------------- text helpers

RECURSIVE Concat(_)
Concat(ss) == IF ss = <<>> THEN <<>> ELSE Head(ss) \o Concat(Tail(ss))

Digits == <<"0", "1", "2", "3", "4", "5", "6", "7", "8", "9">>

RECURSIVE NatToStr(_)
NatToStr(n) ==
    IF n < 10 THEN <<Digits[n + 1]>>
    ELSE NatToStr(n \div 10) \o <<Digits[(n % 10) + 1]>>

\* strconv.Itoa
Itoa(n) == IF n < 0 THEN <<"-">> \o NatToStr(0 - n) ELSE NatToStr(n)

RECURSIVE StringsUpTo(_, _)
StringsUpTo(alphabet, n) ==
    IF n = 0 THEN {<<>>}
    ELSE LET shorter == StringsUpTo(alphabet, n - 1)
         IN  shorter \cup {s \o <<c>> : s \in shorter, c \in alphabet}

RECURSIVE SeqsUpTo(_, _)
SeqsUpTo(S, n) ==
    IF n = 0 THEN {<<>>}
    ELSE LET shorter == SeqsUpTo(S, n - 1)
         IN  shorter \cup {s \o <<x>> : s \in shorter, x \in S}

\* Bytes url.QueryEscape leaves alone: letters, digits and "-", "_", ".", "~".
Unreserved ==
    {"a", "b", "c", "d", "e", "f", "g", "h", "i", "j", "k", "l", "m", "n",
     "o", "p", "q", "r", "s", "t", "u", "v", "w", "x", "y", "z",
     "0", "1", "2", "3", "4", "5", "6", "7", "8", "9", "-", "_", ".", "~"}

\* Upper-case hexadecimal byte value of the other characters identifiers use.
HexOf(c) ==
    CASE c = "/" -> <<"2", "F">>
      [] c = "?" -> <<"3", "F">>
      [] c = "#" -> <<"2", "3">>
      [] c = "%" -> <<"2", "5">>
      [] c = "&" -> <<"2", "6">>
      [] c = "+" -> <<"2", "B">>
      [] c = "=" -> <<"3", "D">>
      [] c = ":" -> <<"3", "A">>

EscapeChar(c) ==
    IF c \in Unreserved THEN <<c>>
    ELSE IF c = " " THEN <<"+">>
    ELSE <<"%">> \o HexOf(c)

\* url.QueryEscape
QueryEscape(s) == Concat([i \in 1..Len(s) |-> EscapeChar(s[i])])

\* ------------------------------------------------------------ identifiers

\* An interface{} identifier: an int, a string, or a value of another type.
IntID(n) == [kind |-> "int", n |-> n]

StringID(s) == [kind |-> "string", s |-> s]

OtherID(v) == [kind |-> "other", v |-> v]

NoArg == [kind |-> "absent"]

ErrInvalidID(id) == [kind |-> "error", msg |-> "invalid ID type", id |-> id]

\* parseID: the decimal text of an int, a string as it is, an error otherwise.
parseID(id) ==
    CASE id.kind = "int" -> [str |-> Itoa(id.n), err |-> NilV]
      [] id.kind = "string" -> [str |-> id.s, err |-> NilV]
      [] OTHER -> [str |-> <<>>, err |-> ErrInvalidID(id)]


\* ---------------------------------------------------- endpoint functions

Functions ==
    {"ListRunners", "ListAllRunners", "GetRunnerDetails",
     "UpdateRunnersDetails", "RemoveARunner", "ListRunnerJobs",
     "ListProjectRunners", "EnableProjectRunner", "DisableProjectRunner"}

\* IdParams with DisableProjectRunner normalising rid before pid.
IdParamsRunnerFirst(f) ==
    CASE f \in {"ListRunners", "ListAllRunners"} -> <<>>
      [] f \in {"GetRunnerDetails", "UpdateRunnersDetails", "RemoveARunner",
                "ListRunnerJobs"} -> <<"rid">>
      [] f \in {"ListProjectRunners", "EnableProjectRunner"} -> <<"pid">>
      [] f = "DisableProjectRunner" -> <<"rid", "pid">>

\* The identifier parameters a function normalises, in the order of its
\* parseID calls.
IdParams(f) ==
    CASE f \in {"ListRunners", "ListAllRunners"} -> <<>>
      [] f \in {"GetRunnerDetails", "UpdateRunnersDetails", "RemoveARunner",
                "ListRunnerJobs"} -> <<"rid">>
      [] f \in {"ListProjectRunners", "EnableProjectRunner"} -> <<"pid">>
      [] f = "DisableProjectRunner" -> <<"pid", "rid">>

\* The method literal handed to client.NewRequest.
Method(f) ==
    CASE f \in {"ListRunners", "ListAllRunners", "GetRunnerDetails",
                "ListRunnerJobs", "ListProjectRunners"} -> "GET"
      [] f = "UpdateRunnersDetails" -> "PUT"
      [] f = "EnableProjectRunner" -> "POST"
      [] f \in {"RemoveARunner", "DisableProjectRunner"} -> "DELETE"

Slash == <<"/">>

RunnersSeg == <<"r", "u", "n", "n", "e", "r", "s">>

ProjectsSeg == <<"p", "r", "o", "j", "e", "c", "t", "s">>

AllSeg == <<"a", "l", "l">>

JobsSeg == <<"j", "o", "b", "s">>

\* fmt.Sprintf("runners/%s", runner)
RunnerPath(runner) == RunnersSeg \o Slash \o runner

\* RunnerJobsPath with the format string of GetRunnerDetails.
RunnerJobsPathNoSuffix(runner) == RunnersSeg \o Slash \o runner

\* fmt.Sprintf("runners/%s/jobs", runner)
RunnerJobsPath(runner) == RunnersSeg \o Slash \o runner \o Slash \o JobsSeg

\* fmt.Sprintf("projects/%s/runners", url.QueryEscape(project))
ProjectRunnersPath(project) ==
    ProjectsSeg \o Slash \o QueryEscape(project) \o Slash \o RunnersSeg

\* fmt.Sprintf("projects/%s/runners/%s", url.QueryEscape(project),
\* url.QueryEscape(runner))
ProjectRunnerPath(project, runner) ==
    ProjectsSeg \o Slash \o QueryEscape(project) \o Slash
        \o RunnersSeg \o Slash \o QueryEscape(runner)

\* The path each function hands to client.NewRequest: a literal, or u built
\* from its normalised identifiers (project, runner are parseID's results).
Path(f, project, runner) ==
    CASE f = "ListRunners" -> RunnersSeg
      [] f = "ListAllRunners" -> RunnersSeg \o Slash \o AllSeg
      [] f \in {"GetRunnerDetails", "UpdateRunnersDetails", "RemoveARunner"} ->
            RunnerPath(runner)
      [] f = "ListRunnerJobs" -> RunnerJobsPath(runner)
      [] f \in {"ListProjectRunners", "EnableProjectRunner"} ->
            ProjectRunnersPath(project)
      [] f = "DisableProjectRunner" -> ProjectRunnerPath(project, runner)

\* The options struct a function takes; "none" where it passes nil as opt.
OptionsType(f) ==
    CASE f \in {"ListRunners", "ListAllRunners"} -> "ListRunnersOptions"
      [] f = "UpdateRunnersDetails" -> "UpdateRunnersDetailsOptions"
      [] f = "ListRunnerJobs" -> "ListRunnersJobsOptions"
      [] f = "ListProjectRunners" -> "ListProjectRunnersOptions"
      [] f = "EnableProjectRunner" -> "EnableProjectRunnerOptions"
      [] OTHER -> "none"

\* What a function hands to client.Do as the value to decode into: the type
\* of its local rs (or r), or "nil" for the calls that pass nil.
DecodeTarget(f) ==
    CASE f \in {"ListRunners", "ListAllRunners", "ListProjectRunners"} -> "RunnerList"
      [] f \in {"GetRunnerDetails", "UpdateRunnersDetails"} -> "RunnersDetails"
      [] f = "ListRunnerJobs" -> "JobList"
      [] f = "EnableProjectRunner" -> "Runner"
      [] f \in {"RemoveARunner", "DisableProjectRunner"} -> "nil"

\* Functions declared to return (*Response, error) only.
TwoResults(f) == f \in {"RemoveARunner", "DisableProjectRunner"}

Ret2(resp, err) == [kind |-> "ret2", resp |-> resp, err |-> err]

Ret3(payload, resp, err) ==
    [kind |-> "ret3", payload |-> payload, resp |-> resp, err |-> err]

NoRet == [kind |-> "none"]

\* IdCheck left out: "x, _ := parseID(id)".
IdCheckSkipped(err) == FALSE

\* The test "if err != nil" after parseID.
IdCheck(err) == err # NilV

\* RequestCheck left out: "req, _ := s.client.NewRequest(...)".
RequestCheckSkipped(err) == FALSE

\* The test "if err != nil" after client.NewRequest.
RequestCheck(err) == err # NilV

\* "return nil, nil, err" (or "return nil, err") before client.Do is reached.
EarlyReturn(f, err) ==
    IF TwoResults(f) THEN Ret2(NilV, err) ELSE Ret3(NilV, NilV, err)

\* DoReturn without the "if err != nil { return nil, resp, err }" branch.
DoReturnKeepsTarget(f, rs, resp, err) ==
    IF TwoResults(f) THEN Ret2(resp, err) ELSE Ret3(rs, resp, err)

\* DoReturn with the two-result functions dropping the response of a failed
\* call, as the early returns do.
DoReturnDropsResponse(f, rs, resp, err) ==
    IF TwoResults(f) THEN (IF err # NilV THEN Ret2(NilV, err) ELSE Ret2(resp, err))
    ELSE IF err # NilV THEN Ret3(NilV, resp, err)
    ELSE Ret3(rs, resp, err)

\* What a function returns once client.Do has returned (resp, err) and left
\* rs in the decode target.
DoReturn(f, rs, resp, err) ==
    IF TwoResults(f) THEN Ret2(resp, err)
    ELSE IF err # NilV THEN Ret3(NilV, resp, err)
    ELSE Ret3(rs, resp, err)

\* ------------------------------------------------------- options structs

\* ListOptions, embedded in the list options: page and per_page.
ListOptionsFields ==
    {[name |-> "Page", url |-> "page", urlOmit |-> TRUE,
      json |-> "page", jsonOmit |-> TRUE],
     [name |-> "PerPage", url |-> "per_page", urlOmit |-> TRUE,
      json |-> "per_page", jsonOmit |-> TRUE]}

Tagged(name, url, json) ==
    [name |-> name, url |-> url, urlOmit |-> TRUE, json |-> json, jsonOmit |-> TRUE]

\* ListRunnersOptions (and ListProjectRunnersOptions, declared as the same
\* type): ListOptions and Scope.
ListRunnersOptionsFields ==
    ListOptionsFields \cup {Tagged("Scope", "scope", "scope")}

\* UpdateRunnersDetailsOptions
UpdateRunnersDetailsOptionsFields ==
    {Tagged("Description", "description", "description"),
     Tagged("Active", "active", "active"),
     Tagged("TagList", "tag_list[]", "tag_list"),
     Tagged("RunUntagged", "run_untagged", "run_untagged"),
     Tagged("Locked", "locked", "locked"),
     Tagged("AccessLevel", "access_level", "access_level")}

\* ListRunnersJobsOptionsFields with Status tagged `url:"status"
\* json:"status"`, the omitempty forgotten.
ListRunnersJobsOptionsFieldsNoOmit ==
    ListOptionsFields \cup
    {[name |-> "Status", url |-> "status", urlOmit |-> FALSE,
      json |-> "status", jsonOmit |-> FALSE]}

\* ListRunnersJobsOptions: ListOptions and Status.
ListRunnersJobsOptionsFields ==
    ListOptionsFields \cup {Tagged("Status", "status", "status")}

\* EnableProjectRunnerOptions: RunnerID has a json tag without omitempty and
\* no url tag, so the url encoding uses the Go name.
EnableProjectRunnerOptionsFields ==
    {[name |-> "RunnerID", url |-> "RunnerID", urlOmit |-> FALSE,
      json |-> "runner_id", jsonOmit |-> FALSE]}

\* The fields of each options struct with their url and json tags.
Fields(t) ==
    CASE t \in {"ListRunnersOptions", "ListProjectRunnersOptions"} ->
            ListRunnersOptionsFields
      [] t = "UpdateRunnersDetailsOptions" -> UpdateRunnersDetailsOptionsFields
      [] t = "ListRunnersJobsOptions" -> ListRunnersJobsOptionsFields
      [] t = "EnableProjectRunnerOptions" -> EnableProjectRunnerOptionsFields
      [] OTHER -> {}

OptV(t, f) == [kind |-> "opt", type |-> t, f |-> f]

\* The option values callers pass: nil, or a struct with each field unset or
\* set.  A *bool may point to false.
OptionValues(t) ==
    {NilV} \cup
    CASE t \in {"ListRunnersOptions", "ListProjectRunnersOptions"} ->
            {OptV(t, f) : f \in [Page : {IntV(0), IntV(2)},
                                 PerPage : {IntV(0), IntV(20)},
                                 Scope : {NilV, PtrV(StrV("active"))}]}
      [] t = "UpdateRunnersDetailsOptions" ->
            {OptV(t, f) : f \in [Description : {NilV, PtrV(StrV("d"))},
                                 Active : {NilV, PtrV(BoolV(TRUE)), PtrV(BoolV(FALSE))},
                                 TagList : {StrsV(<<>>), StrsV(<<"docker">>)},
                                 RunUntagged : {NilV, PtrV(BoolV(TRUE))},
                                 Locked : {NilV, PtrV(BoolV(TRUE))},
                                 AccessLevel : {NilV, PtrV(StrV("ref_protected"))}]}
      [] t = "ListRunnersJobsOptions" ->
            {OptV(t, f) : f \in [Page : {IntV(0), IntV(2)},
                                 PerPage : {IntV(0), IntV(20)},
                                 Status : {NilV, PtrV(StrV("running"))}]}
      [] t = "EnableProjectRunnerOptions" ->
            {OptV(t, f) : f \in [RunnerID : {IntV(0), IntV(7)}]}
      [] OTHER -> {}

\* omitempty's test: false, 0, a nil pointer, an empty slice or string.
IsEmptyValue(v) ==
    CASE v.kind = "nil" -> TRUE
      [] v.kind = "ptr" -> FALSE
      [] v.kind = "bool" -> ~v.b
      [] v.kind = "int" -> v.n = 0
      [] v.kind = "str" -> v.s = ""
      [] v.kind = "strs" -> v.items = <<>>

WireValue(v) == IF v.kind = "ptr" THEN v.to ELSE v

\* The key/value pairs of opt under the url tags (wire = "url") or the json
\* tags (wire = "json").
Encode(opt, wire) ==
    IF opt.kind = "nil" THEN {}
    ELSE {[key |-> IF wire = "url" THEN fld.url ELSE fld.json,
           val |-> WireValue(opt.f[fld.name])] :
            fld \in {x \in Fields(opt.type) :
                        ~((IF wire = "url" THEN x.urlOmit ELSE x.jsonOmit)
                          /\ IsEmptyValue(opt.f[x.name]))}}

\* The request client.NewRequest builds: opt goes to the JSON body of a
\* POST or PUT and to the query string of any other method.
BuildRequest(method, path, opt) ==
    [kind |-> "req", method |-> method, path |-> path,
     query |-> IF method \in {"POST", "PUT"} THEN {} ELSE Encode(opt, "url"),
     body |-> IF method \in {"POST", "PUT"} THEN Encode(opt, "json") ELSE {}]

ErrNewRequest == [kind |-> "error", msg |-> "request construction failed"]

\* ------------------------------------------------------ response decoding

\* RunnerJSONKey with IsShared tagged `json:"shared"`.
RunnerJSONKeyShared(field) ==
    CASE field = "ID" -> "id"
      [] field = "Description" -> "description"
      [] field = "Active" -> "active"
      [] field = "IsShared" -> "shared"
      [] field = "Name" -> "name"
      [] field = "Online" -> "online"
      [] field = "Status" -> "status"

\* The json tag of each field of Runner.
RunnerJSONKey(field) ==
    CASE field = "ID" -> "id"
      [] field = "Description" -> "description"
      [] field = "Active" -> "active"
      [] field = "IsShared" -> "is_shared"
      [] field = "Name" -> "name"
      [] field = "Online" -> "online"
      [] field = "Status" -> "status"

\* A struct field after decoding a JSON object: the value under the field's
\* key, or the field's zero value when the object has no such key.
FieldOf(obj, key, zero) == IF key \in DOMAIN obj THEN obj[key] ELSE zero

\* A *Runner decoded from a JSON object; keys without a field are ignored.
DecodeRunner(obj) ==
    [kind |-> "Runner",
     ID |-> FieldOf(obj, RunnerJSONKey("ID"), 0),
     Description |-> FieldOf(obj, RunnerJSONKey("Description"), ""),
     Active |-> FieldOf(obj, RunnerJSONKey("Active"), FALSE),
     IsShared |-> FieldOf(obj, RunnerJSONKey("IsShared"), FALSE),
     Name |-> FieldOf(obj, RunnerJSONKey("Name"), ""),
     Online |-> FieldOf(obj, RunnerJSONKey("Online"), FALSE),
     Status |-> FieldOf(obj, RunnerJSONKey("Status"), "")]

\* A []*Runner decoded from a JSON array, element by element.
DecodeRunners(objs) ==
    [kind |-> "list", items |-> [i \in 1..Len(objs) |-> DecodeRunner(objs[i])]]

\* Runner objects the server sends; the second carries a key Runner has no
\* field for.
RunnerObjects ==
    {[id |-> 7, description |-> "shell runner", active |-> TRUE,
      is_shared |-> FALSE, name |-> "gitlab-runner", online |-> TRUE,
      status |-> "online"],
     [id |-> 42, description |-> "docker runner", active |-> FALSE,
      is_shared |-> TRUE, name |-> "ci", online |-> FALSE,
      status |-> "paused", ip_address |-> "10.0.0.1"]}

ArrayBody(objs) == [kind |-> "array", items |-> objs]

ObjectBody(obj) == [kind |-> "object", obj |-> obj]

\* Well-formed bodies of a successful response, by the type decoded into.
\* RunnersDetails and Job values are not taken apart: their body is a token.
Bodies(target) ==
    CASE target = "RunnerList" ->
            {ArrayBody(objs) : objs \in SeqsUpTo(RunnerObjects, MaxList)}
      [] target = "Runner" -> {ObjectBody(obj) : obj \in RunnerObjects}
      [] target = "RunnersDetails" -> {[kind |-> "details", v |-> "runner 7"]}
      [] target = "JobList" ->
            {[kind |-> "jobs", v |-> "none"], [kind |-> "jobs", v |-> "two jobs"]}
      [] OTHER -> {}

\* json decoding of a body into a value of the target's type.
Decode(target, body) ==
    CASE target = "RunnerList" -> DecodeRunners(body.items)
      [] target = "Runner" -> DecodeRunner(body.obj)
      [] OTHER -> [kind |-> target, from |-> body.v]

\* What a decode that fails half way leaves in the target.
PartlyDecoded(target) ==
    CASE target = "RunnerList" -> DecodeRunners(<<[id |-> 7]>>)
      [] target = "Runner" -> DecodeRunner([id |-> 7])
      [] OTHER -> [kind |-> target, from |-> "truncated"]

Response(status) == [kind |-> "response", status |-> status]

ErrHTTP == [kind |-> "error", msg |-> "404 Not Found"]

ErrTransport == [kind |-> "error", msg |-> "connection refused"]

ErrDecode == [kind |-> "error", msg |-> "unexpected end of JSON input"]

DoResult(resp, err, body, rs) ==
    [resp |-> resp, err |-> err, body |-> body, rs |-> rs]

\* The outcomes of client.Do(req, v): success with a decoded body, a non-2xx
\* status, a transport failure without a response, a decode failure that
\* leaves v partly filled.  With v = nil nothing is decoded.
DoResults(target) ==
    {DoResult(Response(404), ErrHTTP, NilV, NilV),
     DoResult(NilV, ErrTransport, NilV, NilV)}
    \cup
    (IF target = "nil"
     THEN {DoResult(Response(204), NilV, NilV, NilV)}
     ELSE {DoResult(Response(200), NilV, b, Decode(target, b)) : b \in Bodies(target)}
          \cup
          {DoResult(Response(200), ErrDecode, NilV, PartlyDecoded(target))})

\* ------------------------------------------------------------- callers

\* Goroutines that call the service.
Callers == {"c1", "c2"}

IdAlphabet == {"a", "/", "?"}

IntIds == {7, 42}

\* What callers pass as an identifier: ints, strings, and values of a type
\* parseID does not accept.
Identifiers ==
    {IntID(n) : n \in IntIds}
    \cup {StringID(s) : s \in StringsUpTo(IdAlphabet, MaxIdLen)}
    \cup {OtherID("nil"), OtherID("float64")}

IdArgs(f, param) ==
    IF \E i \in DOMAIN IdParams(f) : IdParams(f)[i] = param
    THEN Identifiers ELSE {NoArg}

Invocation(f, a, b, o) == [fn |-> f, pid |-> a, rid |-> b, opt |-> o]

\* Every call of every endpoint function.
Invocations ==
    UNION {{Invocation(f, a, b, o) :
                a \in IdArgs(f, "pid"), b \in IdArgs(f, "rid"),
                o \in OptionValues(OptionsType(f))} : f \in Functions}

\* The calls made while another call is in flight.
ConcurrentInvocations ==
    {inv \in Invocations :
        /\ inv.pid \in {NoArg, IntID(42), StringID(<<"a", "/">>), OtherID("nil")}
        /\ inv.rid \in {NoArg, IntID(7), StringID(<<"/">>)}
        /\ \/ inv.opt = NilV
           \/ inv.opt.type = "EnableProjectRunnerOptions"}

\* ----------------------------------------------------------------- state

VARIABLES
    client,     \* RunnersService.client
    pc,         \* per caller: "idle", "entry", "do", "done"
    fn,         \* per caller: the function called
    pid,        \* per caller: argument pid
    rid,        \* per caller: argument rid
    opt,        \* per caller: argument opt
    parsed,     \* per caller: the parameters parseID was applied to, in order
    project,    \* per caller: local project
    runner,     \* per caller: local runner
    req,        \* per caller: local req
    ret,        \* per caller: the values returned
    log         \* the calls the shared client has received, oldest first

vars == <<client, pc, fn, pid, rid, opt, parsed, project, runner, req, ret, log>>

args == <<fn, pid, rid, opt>>

SharedClient == [kind |-> "client", baseURL |-> "https://gitlab.example/api/v4/"]

Init ==
    /\ client = SharedClient
    /\ pc = [c \in Callers |-> "idle"]
    /\ fn = [c \in Callers |-> "none"]
    /\ pid = [c \in Callers |-> NoArg]
    /\ rid = [c \in Callers |-> NoArg]
    /\ opt = [c \in Callers |-> NilV]
    /\ parsed = [c \in Callers |-> <<>>]
    /\ project = [c \in Callers |-> <<>>]
    /\ runner = [c \in Callers |-> <<>>]
    /\ req = [c \in Callers |-> NilV]
    /\ ret = [c \in Callers |-> NoRet]
    /\ log = <<>>

\* LocalScope with the variables held in one place for all callers (fields
\* of the service, or package variables).
SharedScope(c) == Callers

\* The callers whose variable a ":=" inside caller c's invocation writes:
\* project, runner, u, req, rs, resp and err are locals of the invocation.
LocalScope(c) == {c}

Assign(var, c, v) == [d \in Callers |-> IF d \in LocalScope(c) THEN v ELSE var[d]]

\* A caller enters an endpoint function.
Call(c, inv) ==
    /\ pc[c] = "idle"
    /\ pc' = [pc EXCEPT ![c] = "entry"]
    /\ fn' = [fn EXCEPT ![c] = inv.fn]
    /\ pid' = [pid EXCEPT ![c] = inv.pid]
    /\ rid' = [rid EXCEPT ![c] = inv.rid]
    /\ opt' = [opt EXCEPT ![c] = inv.opt]
    /\ UNCHANGED <<client, parsed, project, runner, req, ret, log>>

\* The next "x, err := parseID(id); if err != nil { return ... }".
ParseNext(c) ==
    /\ pc[c] = "entry"
    /\ Len(parsed[c]) < Len(IdParams(fn[c]))
    /\ LET param == IdParams(fn[c])[Len(parsed[c]) + 1]
           r == parseID(IF param = "pid" THEN pid[c] ELSE rid[c])
       IN  /\ parsed' = [parsed EXCEPT ![c] = Append(@, param)]
           /\ IF IdCheck(r.err)
              THEN /\ ret' = [ret EXCEPT ![c] = EarlyReturn(fn[c], r.err)]
                   /\ pc' = [pc EXCEPT ![c] = "done"]
                   /\ UNCHANGED <<project, runner>>
              ELSE /\ project' = IF param = "pid" THEN Assign(project, c, r.str)
                                 ELSE project
                   /\ runner' = IF param = "rid" THEN Assign(runner, c, r.str)
                                ELSE runner
                   /\ UNCHANGED <<ret, pc>>
    /\ UNCHANGED <<client, args, req, log>>

\* "u := fmt.Sprintf(...)" and "req, err := s.client.NewRequest(method, u,
\* opt, options); if err != nil { return ... }".  The client either builds
\* the request or refuses.
NewRequest(c) ==
    /\ pc[c] = "entry"
    /\ Len(parsed[c]) = Len(IdParams(fn[c]))
    /\ LET u == Path(fn[c], project[c], runner[c])
           m == Method(fn[c])
       IN  \E err \in {NilV, ErrNewRequest} :
              /\ log' = Append(log, [caller |-> c, op |-> "NewRequest",
                                     method |-> m, path |-> u, opt |-> opt[c],
                                     err |-> err])
              /\ IF RequestCheck(err)
                 THEN /\ ret' = [ret EXCEPT ![c] = EarlyReturn(fn[c], err)]
                      /\ pc' = [pc EXCEPT ![c] = "done"]
                      /\ UNCHANGED req
                 ELSE /\ req' = Assign(req, c,
                                       IF err = NilV THEN BuildRequest(m, u, opt[c])
                                       ELSE NilV)
                      /\ pc' = [pc EXCEPT ![c] = "do"]
                      /\ UNCHANGED ret
    /\ UNCHANGED <<client, args, parsed, project, runner>>

\* "resp, err := s.client.Do(req, &rs)" (or Do(req, nil)) and the return
\* that follows it.
Do(c) ==
    /\ pc[c] = "do"
    /\ \E r \in DoResults(DecodeTarget(fn[c])) :
          /\ log' = Append(log, [caller |-> c, op |-> "Do", req |-> req[c],
                                 target |-> DecodeTarget(fn[c]),
                                 resp |-> r.resp, err |-> r.err,
                                 body |-> r.body, rs |-> r.rs])
          /\ ret' = [ret EXCEPT ![c] = DoReturn(fn[c], r.rs, r.resp, r.err)]
    /\ pc' = [pc EXCEPT ![c] = "done"]
    /\ UNCHANGED <<client, args, parsed, project, runner, req>>

\* One caller at a time.
Next ==
    \/ \E inv \in Invocations : Call("c1", inv)
    \/ ParseNext("c1")
    \/ NewRequest("c1")
    \/ Do("c1")

Spec == Init /\ [][Next]_vars

\* Callers running concurrently.
NextConcurrent ==
    \E c \in Callers :
        \/ \E inv \in ConcurrentInvocations : Call(c, inv)
        \/ ParseNext(c)
        \/ NewRequest(c)
        \/ Do(c)

SpecConcurrent == Init /\ [][NextConcurrent]_vars

\* ------------------------------------------------------------ properties

\* The client calls one caller's invocation has made, oldest first.
LogOf(c) == SelectSeq(log, LAMBDA e : e.caller = c)

Started(c) == pc[c] # "idle"

Done(c) == pc[c] = "done"

\* The identifier arguments of caller c's function, as its signature lists
\* them: rid, pid, or pid and rid.
IdentifierArgs(c) ==
    CASE fn[c] \in {"GetRunnerDetails", "UpdateRunnersDetails", "RemoveARunner",
                    "ListRunnerJobs"} -> {rid[c]}
      [] fn[c] \in {"ListProjectRunners", "EnableProjectRunner"} -> {pid[c]}
      [] fn[c] = "DisableProjectRunner" -> {pid[c], rid[c]}
      [] OTHER -> {}

Invalid(id) == parseID(id).err # NilV

NoPayload(r) == r.kind = "ret3" => r.payload = NilV

RECURSIVE Join(_)
Join(parts) ==
    IF Len(parts) = 1 THEN parts[1]
    ELSE parts[1] \o <<"/">> \o Join(Tail(parts))

RECURSIVE CountIn(_, _)
CountIn(s, chars) ==
    IF s = <<>> THEN 0
    ELSE (IF Head(s) \in chars THEN 1 ELSE 0) + CountIn(Tail(s), chars)

\* C1: in every function that accepts an identifier, an identifier argument
\* that fails normalisation makes the invocation return that error with a nil
\* payload and a nil response, and the invocation calls neither
\* client.NewRequest nor client.Do.
C1_InvalidIdShortCircuits ==
    \A c \in Callers :
        (Started(c) /\ \E a \in IdentifierArgs(c) : Invalid(a)) =>
            /\ LogOf(c) = <<>>
            /\ Done(c) =>
                  /\ ret[c].err \in {parseID(a).err :
                                        a \in {b \in IdentifierArgs(c) : Invalid(b)}}
                  /\ ret[c].resp = NilV
                  /\ NoPayload(ret[c])

\* An UpdateRunnersDetails call with a float64 runner id has returned.
C1_Witness ==
    /\ Done("c1")
    /\ fn["c1"] = "UpdateRunnersDetails"
    /\ rid["c1"] = OtherID("float64")
    /\ opt["c1"] # NilV

\* The documented table: method and path template of each function, the
\* template's placeholders filled with id (the project's for the project
\* endpoints) and runnerId.
DocMethod(f) ==
    CASE f = "ListRunners" -> "GET"
      [] f = "ListAllRunners" -> "GET"
      [] f = "GetRunnerDetails" -> "GET"
      [] f = "UpdateRunnersDetails" -> "PUT"
      [] f = "RemoveARunner" -> "DELETE"
      [] f = "ListRunnerJobs" -> "GET"
      [] f = "ListProjectRunners" -> "GET"
      [] f = "EnableProjectRunner" -> "POST"
      [] f = "DisableProjectRunner" -> "DELETE"

DocPath(f, id, runnerId) ==
    CASE f = "ListRunners" -> Join(<<RunnersSeg>>)
      [] f = "ListAllRunners" -> Join(<<RunnersSeg, AllSeg>>)
      [] f = "GetRunnerDetails" -> Join(<<RunnersSeg, runnerId>>)
      [] f = "UpdateRunnersDetails" -> Join(<<RunnersSeg, runnerId>>)
      [] f = "RemoveARunner" -> Join(<<RunnersSeg, runnerId>>)
      [] f = "ListRunnerJobs" -> Join(<<RunnersSeg, runnerId, JobsSeg>>)
      [] f = "ListProjectRunners" -> Join(<<ProjectsSeg, id, RunnersSeg>>)
      [] f = "EnableProjectRunner" -> Join(<<ProjectsSeg, id, RunnersSeg>>)
      [] f = "DisableProjectRunner" ->
            Join(<<ProjectsSeg, id, RunnersSeg, runnerId>>)

\* The text of a valid identifier: the decimal digits of an int, the
\* characters of a string; nothing for an argument the function does not take.
IdText(id) ==
    CASE id.kind = "int" -> Itoa(id.n)
      [] id.kind = "string" -> id.s
      [] OTHER -> <<>>

\* The forms in which an identifier may fill a placeholder: its text, or its
\* text escaped.  For a number both are its decimal digits.
IdForms(id) == {IdText(id), QueryEscape(IdText(id))}

\* C2: whenever a function hands a request to client.NewRequest, the method
\* and the path are those of the documented table, the placeholders of the
\* path filled with the function's identifiers.
C2_MethodAndPathMatchTable ==
    \A i \in DOMAIN log :
        log[i].op = "NewRequest" =>
            LET c == log[i].caller
            IN  /\ log[i].method = DocMethod(fn[c])
                /\ log[i].path \in {DocPath(fn[c], x, y) :
                                       x \in IdForms(pid[c]), y \in IdForms(rid[c])}

\* DisableProjectRunner(42, 7) has asked for DELETE projects/42/runners/7.
C2_Witness ==
    \E i \in DOMAIN log :
        /\ log[i].op = "NewRequest"
        /\ fn[log[i].caller] = "DisableProjectRunner"
        /\ pid[log[i].caller] = IntID(42)
        /\ rid[log[i].caller] = IntID(7)
        /\ log[i].method = "DELETE"
        /\ log[i].path = <<"p", "r", "o", "j", "e", "c", "t", "s", "/", "4", "2", "/",
                           "r", "u", "n", "n", "e", "r", "s", "/", "7">>

\* Characters with a reserved meaning in a URL path.
ReservedChars == {"/", "?", "#"}

ReservedInIds(c) ==
    CountIn(IdText(pid[c]), ReservedChars) + CountIn(IdText(rid[c]), ReservedChars)

\* C3: in every path handed to client.NewRequest the reserved characters of
\* the string identifiers appear percent-encoded and never raw: the path has
\* no reserved character beyond those of its template, and one escape for
\* each reserved character of the identifiers.
C3_IdentifiersPercentEncoded ==
    \A i \in DOMAIN log :
        log[i].op = "NewRequest" =>
            LET c == log[i].caller
            IN  /\ CountIn(log[i].path, ReservedChars)
                      = CountIn(DocPath(fn[c], <<>>, <<>>), ReservedChars)
                /\ CountIn(log[i].path, {"%"}) = ReservedInIds(c)

\* Unset, as a caller leaves a field: a nil pointer, a nil or empty slice, a
\* zero value.
Unset(v) == v = NilV \/ v = StrsV(<<>>) \/ v = IntV(0)

SentKeys(r) == {kv.key : kv \in r.query \cup r.body}

UnsetFields(o) == {fld \in Fields(o.type) : Unset(o.f[fld.name])}

\* C4 as claimed: in the request built for any options struct, no field the
\* caller left unset appears in the query string or the JSON body.
C4_UnsetFieldsNeverSent ==
    \A c \in Callers :
        (req[c] # NilV /\ opt[c] # NilV) =>
            \A fld \in UnsetFields(opt[c]) :
                /\ fld.url \notin SentKeys(req[c])
                /\ fld.json \notin SentKeys(req[c])

\* C4 as amended: the unset fields of ListRunnersOptions,
\* UpdateRunnersDetailsOptions, ListRunnersJobsOptions and
\* ListProjectRunnersOptions appear neither in the query string nor in the
\* JSON body; RunnerID of EnableProjectRunnerOptions is in the JSON body
\* whatever its value.
C4_UnsetOmitemptyFieldsNotSent ==
    \A c \in Callers :
        (req[c] # NilV /\ opt[c] # NilV) =>
            IF opt[c].type = "EnableProjectRunnerOptions"
            THEN \E kv \in req[c].body :
                    kv.key = "runner_id" /\ kv.val = opt[c].f.RunnerID
            ELSE \A fld \in UnsetFields(opt[c]) :
                    /\ fld.url \notin SentKeys(req[c])
                    /\ fld.json \notin SentKeys(req[c])

\* A ListRunnerJobs request built from options with only Page set carries
\* page and nothing else.
C4_Witness ==
    /\ fn["c1"] = "ListRunnerJobs"
    /\ req["c1"] # NilV
    /\ opt["c1"] # NilV
    /\ opt["c1"].f.Status = NilV
    /\ opt["c1"].f.PerPage = IntV(0)
    /\ opt["c1"].f.Page = IntV(2)
    /\ SentKeys(req["c1"]) = {"page"}

DeleteStyle(f) == f \in {"RemoveARunner", "DisableProjectRunner"}

\* C5: RemoveARunner and DisableProjectRunner call client.Do with a nil
\* decode target, so that nothing is decoded, and return exactly the response
\* and the error client.Do returned, with no payload value, whether the call
\* succeeded or failed.
C5_DeleteCallsReturnDoResult ==
    \A i \in DOMAIN log :
        (log[i].op = "Do" /\ DeleteStyle(fn[log[i].caller])) =>
            /\ log[i].target = "nil"
            /\ log[i].rs = NilV
            /\ Done(log[i].caller)
            /\ ret[log[i].caller] = [kind |-> "ret2", resp |-> log[i].resp,
                                     err |-> log[i].err]

\* RemoveARunner has returned after client.Do failed with a 404 response.
C5_Witness ==
    \E i \in DOMAIN log :
        /\ log[i].op = "Do"
        /\ fn[log[i].caller] = "RemoveARunner"
        /\ log[i].err # NilV
        /\ log[i].resp # NilV
        /\ Done(log[i].caller)

\* C6: an invocation calls the client at most twice: NewRequest first, then
\* Do, and Do only after a NewRequest that returned no error.  A failed
\* NewRequest ends the invocation with that error, a nil payload and a nil
\* response; a failed Do ends it too.  Nothing is called again.
C6_OneRequestOneDoNoRetry ==
    \A c \in Callers :
        LET l == LogOf(c)
        IN  /\ Len(l) <= 2
            /\ Len(l) >= 1 => l[1].op = "NewRequest"
            /\ Len(l) = 2 => (l[2].op = "Do" /\ l[1].err = NilV)
            /\ (Len(l) >= 1 /\ l[1].err # NilV) =>
                  /\ Len(l) = 1
                  /\ Done(c)
                  /\ ret[c].err = l[1].err
                  /\ ret[c].resp = NilV
                  /\ NoPayload(ret[c])
            /\ (Len(l) = 2 /\ l[2].err # NilV) => Done(c)

\* EnableProjectRunner has returned after client.NewRequest refused.
C6_Witness ==
    /\ Done("c1")
    /\ fn["c1"] = "EnableProjectRunner"
    /\ Len(LogOf("c1")) = 1
    /\ LogOf("c1")[1].err = ErrNewRequest

\* The first invalid identifier in the order the function normalises them.
FirstInvalid(f, a, b) ==
    LET ids == [i \in DOMAIN IdParams(f) |->
                    IF IdParams(f)[i] = "pid" THEN a ELSE b]
        bad == {i \in DOMAIN ids : Invalid(ids[i])}
    IN  IF bad = {} THEN NilV
        ELSE parseID(ids[CHOOSE i \in bad : \A j \in bad : i <= j]).err

\* What an invocation running alone hands to client.NewRequest.
AloneRequest(f, a, b, o) ==
    [method |-> Method(f), path |-> Path(f, parseID(a).str, parseID(b).str),
     opt |-> o]

\* What an invocation running alone returns, given what the client answered
\* to its calls (l: the invocation's own client calls).
AloneReturn(f, a, b, l) ==
    IF FirstInvalid(f, a, b) # NilV THEN EarlyReturn(f, FirstInvalid(f, a, b))
    ELSE IF l[1].err # NilV THEN EarlyReturn(f, l[1].err)
    ELSE DoReturn(f, l[2].rs, l[2].resp, l[2].err)

\* C7: the service's client reference is never reassigned, and whatever the
\* interleaving of concurrent invocations, each invocation hands to the
\* client the method, path and options, and returns the values, that it
\* would alone, given the client's answers to its own calls.
C7_InvocationsDoNotInterfere ==
    /\ client = SharedClient
    /\ \A c \in Callers :
          LET l == LogOf(c)
              alone == AloneRequest(fn[c], pid[c], rid[c], opt[c])
          IN  /\ Len(l) >= 1 =>
                    /\ l[1].method = alone.method
                    /\ l[1].path = alone.path
                    /\ l[1].opt = alone.opt
              /\ Len(l) >= 2 =>
                    l[2].req = BuildRequest(alone.method, alone.path, alone.opt)
              /\ Done(c) => ret[c] = AloneReturn(fn[c], pid[c], rid[c], l)

\* Two invocations with different paths have interleaved their client calls:
\* NewRequest of c1, NewRequest of c2, Do of c1, Do of c2.
C7_Witness ==
    /\ Len(log) = 4
    /\ log[1].caller = "c1" /\ log[2].caller = "c2"
    /\ log[3].caller = "c1" /\ log[4].caller = "c2"
    /\ log[1].path # log[2].path
    /\ runner["c1"] # runner["c2"]
    /\ Done("c1") /\ Done("c2")

ListsRunners(f) == f \in {"ListRunners", "ListAllRunners", "ListProjectRunners"}

\* C8: when the body of a successful ListRunners, ListAllRunners or
\* ListProjectRunners response is a JSON array of runner objects, the
\* returned list has the array's length and order, and the ID, Description,
\* Active, IsShared, Name, Online and Status of each element are the id,
\* description, active, is_shared, name, online and status of the object at
\* the same position.
C8_ListDecodingKeepsLengthAndFields ==
    \A i \in DOMAIN log :
        (/\ log[i].op = "Do"
         /\ ListsRunners(fn[log[i].caller])
         /\ log[i].err = NilV
         /\ log[i].body.kind = "array") =>
            LET objs == log[i].body.items
                got == ret[log[i].caller].payload
            IN  /\ got.kind = "list"
                /\ Len(got.items) = Len(objs)
                /\ \A k \in DOMAIN objs :
                      /\ got.items[k].ID = objs[k].id
                      /\ got.items[k].Description = objs[k].description
                      /\ got.items[k].Active = objs[k].active
                      /\ got.items[k].IsShared = objs[k].is_shared
                      /\ got.items[k].Name = objs[k].name
                      /\ got.items[k].Online = objs[k].online
                      /\ got.items[k].Status = objs[k].status

\* ListProjectRunners has returned two different runners, 42 before 7.
C8_Witness ==
    \E i \in DOMAIN log :
        /\ log[i].op = "Do"
        /\ fn[log[i].caller] = "ListProjectRunners"
        /\ log[i].err = NilV
        /\ Len(log[i].body.items) = 2
        /\ log[i].body.items[1].id = 42
        /\ log[i].body.items[2].id = 7
        /\ Done(log[i].caller)
        /\ ret[log[i].caller].err = NilV

\* C9: a payload-returning function whose client.Do call returned an error
\* returns a nil payload, whatever Do left in the decode target, with the
\* response and the error Do returned; when Do returned no error it returns
\* the decoded target, the response and a nil error.
C9_DoErrorNilsPayload ==
    \A i \in DOMAIN log :
        (log[i].op = "Do" /\ ~DeleteStyle(fn[log[i].caller])) =>
            /\ Done(log[i].caller)
            /\ ret[log[i].caller] =
                  IF log[i].err # NilV
                  THEN [kind |-> "ret3", payload |-> NilV,
                        resp |-> log[i].resp, err |-> log[i].err]
                  ELSE [kind |-> "ret3", payload |-> log[i].rs,
                        resp |-> log[i].resp, err |-> NilV]

\* GetRunnerDetails has returned after a decode failure that left the target
\* partly filled.
C9_Witness ==
    \E i \in DOMAIN log :
        /\ log[i].op = "Do"
        /\ fn[log[i].caller] = "GetRunnerDetails"
        /\ log[i].err # NilV
        /\ log[i].rs # NilV
        /\ Done(log[i].caller)

\* C10: DisableProjectRunner normalises pid before rid.  With an invalid pid
\* it never examines rid and returns pid's error, also when rid is invalid
\* too; it returns rid's error only when pid is valid.
C10_ProjectIdCheckedFirst ==
    \A c \in Callers :
        (Started(c) /\ fn[c] = "DisableProjectRunner") =>
            /\ Invalid(pid[c]) =>
                  /\ \A k \in DOMAIN parsed[c] : parsed[c][k] # "rid"
                  /\ Done(c) => ret[c] = [kind |-> "ret2", resp |-> NilV,
                                          err |-> parseID(pid[c]).err]
            /\ (~Invalid(pid[c]) /\ Invalid(rid[c]) /\ Done(c)) =>
                  ret[c] = [kind |-> "ret2", resp |-> NilV,
                            err |-> parseID(rid[c]).err]
            /\ (/\ Done(c)
                /\ ret[c].err = parseID(rid[c]).err
                /\ parseID(rid[c]).err # parseID(pid[c]).err) => ~Invalid(pid[c])

\* DisableProjectRunner has returned for a nil pid and a float64 rid.
C10_Witness ==
    /\ Done("c1")
    /\ fn["c1"] = "DisableProjectRunner"
    /\ pid["c1"] = OtherID("nil")
    /\ rid["c1"] = OtherID("float64")

=============================================================================
